---- MODULE Spec2Model ----
(***************************************************************************)
(* The vLLM provider adapter of litellm                                    *)
(* (litellm/llms/vllm/completion/handler.py): the process-wide engine      *)
(* handle `llm`, validate_environment, completion and batch_completions.   *)
(*                                                                         *)
(* Python values are encoded as strings ("None", "True", "False", "auto",  *)
(* "0.9", ...) so that option values of different Python types can share   *)
(* one dictionary.  A dictionary is a function whose DOMAIN is its key set. *)
(* The engine handle is the index of the engine in `engines`; 0 is None.   *)
(***************************************************************************)
EXTENDS Integers, Sequences, FiniteSets, TLC

VARIABLES installed, llm, engines, nCalls, th

vars == <<installed, llm, engines, nCalls, th>>

(***************************** bounds **************************************)
MaxCalls == 2
MaxBatch == 2
MaxTokens == 1
MaxCandidates == 2
MaxOptKeys == 2

(***************************** data ****************************************)
Threads == {1, 2}
\* the caller of the sequential call series
MainThread == CHOOSE t \in Threads : \A u \in Threads : t <= u
Models == {"m1", "m2"}
None == 0
EmptyDict == [k \in {} |-> ""]

Restrict(d, K) == [k \in K |-> d[k]]

\* {**a, **b}
MergeDicts(a, b) ==
  [k \in DOMAIN a \cup DOMAIN b |-> IF k \in DOMAIN b THEN b[k] ELSE a[k]]

\* an Optional[dict] argument: none = TRUE is Python's None
NoneArg == [none |-> TRUE, d |-> EmptyDict]
DictArg(d) == [none |-> FALSE, d |-> d]

default_params ==
  [k \in {"tokenizer", "tokenizer_mode", "skip_tokenizer_init",
          "trust_remote_code", "dtype", "quantization",
          "gpu_memory_utilization", "load_format"} |->
     CASE k = "tokenizer" -> "None"
       [] k = "tokenizer_mode" -> "auto"
       [] k = "skip_tokenizer_init" -> "False"
       [] k = "trust_remote_code" -> "False"
       [] k = "dtype" -> "auto"
       [] k = "quantization" -> "None"
       [] k = "gpu_memory_utilization" -> "0.9"
       [] k = "load_format" -> "auto"]

\* if optional_params is None: optional_params = {}
NormalizeParams(o) == IF o.none THEN EmptyDict ELSE o.d

\* {k: v for k, v in optional_params.items() if k in default_params}
WhitelistedOptions(op) ==
  Restrict(op, {k \in DOMAIN op : k \in DOMAIN default_params})

\* params = {**default_params, **{...}}
ConstructionParams(op) == MergeDicts(default_params, WhitelistedOptions(op))

GenerationOptionsUnfiltered(op) == op

\* optional_params = {k: v for ... if k not in default_params}
GenerationOptions(op) ==
  Restrict(op, {k \in DOMAIN op : k \notin DOMAIN default_params})

(***************************** exceptions **********************************)
\* status_code -1 and message "" stand for "no such attribute" (a builtin
\* exception); arg is args[0].
NoExc == [type |-> "", arg |-> "", status_code |-> -1, message |-> ""]
Builtin(type, arg) ==
  [type |-> type, arg |-> arg, status_code |-> -1, message |-> ""]

StrTypeName(e) == e.type

\* str(e): the single argument, except KeyError, which shows its repr
Str(e) == IF e.type = "KeyError" THEN "'" \o e.arg \o "'" ELSE e.arg

\* VLLMError.__init__: sets status_code and message, passes message to
\* Exception.__init__
VLLMError(status_code, message) ==
  [type |-> "VLLMError", arg |-> message, status_code |-> status_code,
   message |-> message]

WrapErrorHttp500(e) == VLLMError(500, Str(e))

\* except Exception as e: raise VLLMError(status_code=0, message=str(e))
WrapError(e) == VLLMError(0, Str(e))

ImportFailure == Builtin("ModuleNotFoundError", "No module named vllm")
CtorFailures ==
  {Builtin("ValueError", "invalid dtype"), Builtin("KeyError", "architectures")}
SamplingFailure == Builtin("TypeError", "unexpected keyword argument")
GenerateFailure == Builtin("RuntimeError", "CUDA out of memory")
NoEngineMessage == "Need to pass in a model name to initialize vllm"

NoCause == [origin |-> "none", exc |-> NoExc]

(***************************** inputs **************************************)
OptionValues(k) ==
  CASE k = "tokenizer" -> {"None", "tok"}
    [] k = "tokenizer_mode" -> {"auto", "slow"}
    [] k = "skip_tokenizer_init" -> {"False", "True"}
    [] k = "trust_remote_code" -> {"False", "True"}
    [] k = "dtype" -> {"auto", "float16"}
    [] k = "quantization" -> {"None", "awq"}
    [] k = "gpu_memory_utilization" -> {"0.9", "0.5"}
    [] k = "load_format" -> {"auto", "pt"}
    [] k = "stream" -> {"True", "False"}
    [] k = "temperature" -> {"0.7", "1.0"}
    [] k = "max_tokens" -> {"16", "32"}

OptionKeys == DOMAIN default_params \cup {"stream", "temperature", "max_tokens"}

\* every dictionary of at most MaxOptKeys options
AllOptionDicts ==
  UNION {{d \in [K -> UNION {OptionValues(k) : k \in K}] :
            \A k \in K : d[k] \in OptionValues(k)} :
         K \in {S \in SUBSET OptionKeys : Cardinality(S) <= MaxOptKeys}}

AllOptionArgs == {NoneArg} \cup {DictArg(d) : d \in AllOptionDicts}

\* the option arguments the call sequences are driven with
CallOptionArgs ==
  {NoneArg,
   DictArg([k \in {"stream"} |-> "True"]),
   DictArg([k \in {"stream", "dtype"} |->
              IF k = "stream" THEN "False" ELSE "float16"]),
   DictArg([k \in {"temperature", "quantization"} |->
              IF k = "temperature" THEN "0.7" ELSE "awq"])}

(***************************** prompts *************************************)
UserMsg == [role |-> "user", content |-> "hi"]
SystemMsg == [role |-> "system", content |-> "be brief"]
MessageLists == {<<UserMsg>>, <<SystemMsg, UserMsg>>}

\* batch inputs: every list of at most MaxBatch message lists
BatchInputs == UNION {[1..n -> MessageLists] : n \in 0..MaxBatch}

Template ==
  [roles |-> [r \in {"user"} |-> [pre_message |-> "[U]", post_message |-> "[/U]"]],
   initial_prompt_value |-> "<s>",
   final_prompt_value |-> "</s>"]

\* custom_prompt_dict: no registered template, or one registered for "m1"
CustomPromptDicts == {EmptyDict, [m \in {"m1"} |-> Template]}

RECURSIVE RenderMessages(_, _)
RenderMessages(role_dict, messages) ==
  IF messages = <<>> THEN ""
  ELSE LET m == Head(messages)
           pre == IF m.role \in DOMAIN role_dict
                  THEN role_dict[m.role].pre_message ELSE ""
           post == IF m.role \in DOMAIN role_dict
                   THEN role_dict[m.role].post_message ELSE ""
       IN pre \o m.content \o post \o RenderMessages(role_dict, Tail(messages))

\* factory.custom_prompt: initial value, each message wrapped in its role's
\* labels, final value
custom_prompt(role_dict, initial_prompt_value, final_prompt_value, messages) ==
  initial_prompt_value \o RenderMessages(role_dict, messages) \o final_prompt_value

\* factory.prompt_factory: the default template of the model family
prompt_factory(model, messages) ==
  "{" \o model \o "}" \o RenderMessages(EmptyDict, messages)

\* if model in custom_prompt_dict: custom_prompt(...) else prompt_factory(...)
RenderPrompt(model, messages, custom_prompt_dict) ==
  IF model \in DOMAIN custom_prompt_dict
  THEN LET model_prompt_details == custom_prompt_dict[model]
       IN custom_prompt(model_prompt_details.roles,
                        model_prompt_details.initial_prompt_value,
                        model_prompt_details.final_prompt_value, messages)
  ELSE prompt_factory(model, messages)

(***************************** the engine **********************************)
EngineOfDefaults(model, params) == [model |-> model, params |-> default_params]

\* LLM(model=model, **params): the engine remembers what it was built with
EngineOf(model, params) == [model |-> model, params |-> params]

\* the engine's tokenizer: one token per four characters of the prompt
Tokenize(prompt) == [i \in 1..(Len(prompt) \div 4 + 1) |-> i]

RECURSIVE Detokenize(_)
Detokenize(n) == IF n = 0 THEN "" ELSE Detokenize(n - 1) \o "w"

\* a candidate completion of n tokens
CompletionOutput(n) ==
  [text |-> Detokenize(n), token_ids |-> [i \in 1..n |-> 100 + i]]

\* a RequestOutput for `prompt` whose first candidate has n tokens; the
\* other candidates differ from it
RequestOutput(prompt, n) ==
  [prompt |-> prompt,
   prompt_token_ids |-> Tokenize(prompt),
   outputs |-> [j \in 1..MaxCandidates |->
                  CompletionOutput((n + j - 1) % (MaxTokens + 1))]]

\* llm.generate(prompts, sampling_params): one RequestOutput per prompt, in
\* the order of the prompts; what is generated is the engine's choice
EngineGenerate(prompts) ==
  {[i \in 1..Len(prompts) |-> RequestOutput(prompts[i], ns[i])] :
     ns \in [1..Len(prompts) -> 0..MaxTokens]}

\* an object's truth value: None is false, an engine is true
Truthy(handle) == handle # None

(***************************** responses ***********************************)
NoUsage == [prompt_tokens |-> 0, completion_tokens |-> 0, total_tokens |-> 0]

\* ModelResponse(): a new object; `writes` records the attributes the
\* adapter has assigned
ModelResponse(call, idx) ==
  [id |-> [call |-> call, idx |-> idx], content |-> "None", created |-> 0,
   model |-> "None", usage |-> NoUsage, writes |-> {}]

\* len(output.prompt_token_ids)
PromptTokens(output) == Len(output.prompt_token_ids)

CompletionTokensLastCandidate(output) ==
  Len(output.outputs[Len(output.outputs)].token_ids)

\* len(output.outputs[0].token_ids)
CompletionTokens(output) == Len(output.outputs[1].token_ids)

\* Usage(prompt_tokens=..., completion_tokens=..., total_tokens=...)
UsageOf(output) ==
  [prompt_tokens |-> PromptTokens(output),
   completion_tokens |-> CompletionTokens(output),
   total_tokens |-> PromptTokens(output) + CompletionTokens(output)]

\* the response object filled from one RequestOutput
Populate(model_response, output, model, now) ==
  [model_response EXCEPT
     !.content = output.outputs[1].text,
     !.created = now,
     !.model = model,
     !.usage = UsageOf(output),
     !.writes = {"content", "created", "model", "usage"}]

BuildResponsesFromFirst(outputs, model, now, call) ==
  [i \in 1..Len(outputs) |->
     Populate(ModelResponse(call, i), outputs[1], model, now)]

\* for output in outputs: ... final_outputs.append(model_response)
BuildResponses(outputs, model, now, call) ==
  [i \in 1..Len(outputs) |->
     Populate(ModelResponse(call, i), outputs[i], model, now)]

IsStreamTruthyString(optional_params) ==
  "stream" \in DOMAIN optional_params /\ optional_params["stream"] = "true"

\* "stream" in optional_params and optional_params["stream"] is True
IsStream(optional_params) ==
  "stream" \in DOMAIN optional_params /\ optional_params["stream"] = "True"

\* int(time.time()): the clock ticks once per call
CurrentTime == nCalls

(***************************** state ***************************************)
\* installed : whether `from vllm import LLM, SamplingParams` succeeds
\* llm       : the module global `llm` (None, or the index of an engine)
\* engines   : the engines LLM(...) has constructed, in construction order
\* nCalls    : calls started so far
\* th[t]     : the frame of the call thread t is executing: arguments,
\*             locals, position, and what the call has done so far
\*   events       the calls made on collaborators, in order
\*   cause        the exception that first went wrong in this call
\*   saw_unset    whether line 52 read the global as None
\*   llm_at_start the global when the call began
IdleThread ==
  [pc |-> "idle", fn |-> "", model |-> "", optional_params |-> NoneArg,
   messages |-> <<>>, batch |-> <<>>, custom_prompt_dict |-> EmptyDict,
   model_response |-> ModelResponse(0, 0),
   params |-> EmptyDict, ve_optional_params |-> EmptyDict, new_llm |-> None,
   ret_llm |-> None, ret_optional_params |-> EmptyDict,
   l_llm |-> None, l_optional_params |-> EmptyDict,
   sampling_params |-> EmptyDict, prompt |-> "", prompts |-> <<>>,
   outputs |-> <<>>, final_outputs |-> <<>>,
   ret_kind |-> "none", iter_pos |-> 0,
   exc |-> NoExc, cause |-> NoCause, events |-> <<>>,
   saw_unset |-> FALSE, llm_at_start |-> None]

Init ==
  /\ installed \in BOOLEAN
  /\ llm = None
  /\ engines = <<>>
  /\ nCalls = 0
  /\ th = [t \in Threads |-> IdleThread]

\* a caller enters fn with these arguments
Start(t, fn, model, optional_params, messages, batch, custom_prompt_dict) ==
  /\ th[t].pc = "idle"
  /\ th' = [th EXCEPT ![t] =
              [IdleThread EXCEPT
                 !.pc = "ve_import", !.fn = fn, !.model = model,
                 !.optional_params = optional_params,
                 !.messages = messages, !.batch = batch,
                 !.custom_prompt_dict = custom_prompt_dict,
                 !.model_response = ModelResponse(nCalls + 1, 0),
                 !.llm_at_start = llm]]
  /\ nCalls' = nCalls + 1
  /\ UNCHANGED <<installed, llm, engines>>

\* the call has returned or raised and the caller drops its frame
Finish(t) ==
  /\ th[t].pc \in {"done", "raised"}
  /\ th' = [th EXCEPT ![t] = IdleThread]
  /\ UNCHANGED <<installed, llm, engines, nCalls>>

(***************************** validate_environment ************************)
\* from vllm import LLM, SamplingParams
VEImport(t) ==
  /\ th[t].pc = "ve_import"
  /\ th' = [th EXCEPT ![t] =
              IF installed
              THEN [@ EXCEPT !.pc = "ve_split"]
              ELSE [@ EXCEPT !.pc = "ve_except", !.exc = ImportFailure,
                             !.cause = [origin |-> "import", exc |-> ImportFailure]]]
  /\ UNCHANGED <<installed, llm, engines, nCalls>>

\* default_params, the None check, params and the stripped optional_params
VESplit(t) ==
  /\ th[t].pc = "ve_split"
  /\ LET op == NormalizeParams(th[t].optional_params)
     IN th' = [th EXCEPT ![t] =
                 [@ EXCEPT !.pc = "ve_check",
                           !.params = ConstructionParams(op),
                           !.ve_optional_params = GenerationOptions(op)]]
  /\ UNCHANGED <<installed, llm, engines, nCalls>>

NeedsConstructionAlways(handle) == TRUE

\* if llm is None
NeedsConstruction(handle) == handle = None

VECheck(t) ==
  /\ th[t].pc = "ve_check"
  /\ th' = [th EXCEPT ![t] =
              IF NeedsConstruction(llm)
              THEN [@ EXCEPT !.pc = "ve_construct", !.saw_unset = (llm = None)]
              ELSE [@ EXCEPT !.pc = "ve_return"]]
  /\ UNCHANGED <<installed, llm, engines, nCalls>>

\* LLM(model=model, **params): returns a new engine, or raises
VEConstruct(t) ==
  /\ th[t].pc = "ve_construct"
  /\ \/ /\ engines' = Append(engines, EngineOf(th[t].model, th[t].params))
        /\ th' = [th EXCEPT ![t] =
                    [@ EXCEPT !.pc = "ve_store",
                              !.new_llm = Len(engines) + 1,
                              !.events = Append(@, "LLM")]]
     \/ /\ \E e \in CtorFailures :
             th' = [th EXCEPT ![t] =
                      [@ EXCEPT !.pc = "ve_except", !.exc = e,
                                !.cause = [origin |-> "ctor", exc |-> e],
                                !.events = Append(@, "LLM")]]
        /\ UNCHANGED engines
  /\ UNCHANGED <<installed, llm, nCalls>>

\* llm = <the new engine>
VEStore(t) ==
  /\ th[t].pc = "ve_store"
  /\ llm' = th[t].new_llm
  /\ th' = [th EXCEPT ![t] = [@ EXCEPT !.pc = "ve_return"]]
  /\ UNCHANGED <<installed, engines, nCalls>>

\* return llm, SamplingParams, optional_params
VEReturn(t) ==
  /\ th[t].pc = "ve_return"
  /\ th' = [th EXCEPT ![t] =
              [@ EXCEPT !.ret_llm = llm,
                        !.ret_optional_params = th[t].ve_optional_params,
                        !.pc = CASE th[t].fn = "validate_environment" -> "done"
                                 [] th[t].fn = "completion" -> "c_assign"
                                 [] th[t].fn = "batch_completions" -> "b_assign",
                        !.ret_kind = IF th[t].fn = "validate_environment"
                                     THEN "tuple" ELSE "none"]]
  /\ UNCHANGED <<installed, llm, engines, nCalls>>

\* except Exception as e: raise VLLMError(status_code=0, message=str(e))
VEExcept(t) ==
  /\ th[t].pc = "ve_except"
  /\ th' = [th EXCEPT ![t] =
              [@ EXCEPT !.exc = WrapError(th[t].exc),
                        !.pc = CASE th[t].fn = "validate_environment" -> "raised"
                                 [] th[t].fn = "completion" -> "c_except"
                                 [] th[t].fn = "batch_completions" -> "b_except"]]
  /\ UNCHANGED <<installed, llm, engines, nCalls>>

(***************************** completion **********************************)
\* except Exception as e: raise VLLMError(status_code=0, message=str(e))
CExcept(t) ==
  /\ th[t].pc = "c_except"
  /\ th' = [th EXCEPT ![t] =
              [@ EXCEPT !.exc = WrapError(th[t].exc), !.pc = "raised"]]
  /\ UNCHANGED <<installed, llm, engines, nCalls>>

\* global llm; llm, SamplingParams, optional_params = validate_environment(...)
CAssign(t) ==
  /\ th[t].pc = "c_assign"
  /\ llm' = th[t].ret_llm
  /\ th' = [th EXCEPT ![t] =
              [@ EXCEPT !.l_optional_params = th[t].ret_optional_params,
                        !.events = Append(@, "resolved"),
                        !.pc = "c_sampling"]]
  /\ UNCHANGED <<installed, engines, nCalls>>

\* sampling_params = SamplingParams(**optional_params): the engine accepts
\* the options or rejects them, and a rejection is not caught
CSampling(t) ==
  /\ th[t].pc = "c_sampling"
  /\ \/ th' = [th EXCEPT ![t] =
                 [@ EXCEPT !.sampling_params = th[t].l_optional_params,
                           !.pc = "c_render"]]
     \/ th' = [th EXCEPT ![t] =
                 [@ EXCEPT !.exc = SamplingFailure,
                           !.cause = [origin |-> "sampling", exc |-> SamplingFailure],
                           !.pc = "raised"]]
  /\ UNCHANGED <<installed, llm, engines, nCalls>>

CRender(t) ==
  /\ th[t].pc = "c_render"
  /\ th' = [th EXCEPT ![t] =
              [@ EXCEPT !.prompt = RenderPrompt(th[t].model, th[t].messages,
                                                th[t].custom_prompt_dict),
                        !.events = Append(@, "rendered"),
                        !.pc = "c_pre_call"]]
  /\ UNCHANGED <<installed, llm, engines, nCalls>>

CPreCallSilent(t) ==
  /\ th[t].pc = "c_pre_call"
  /\ th' = [th EXCEPT ![t] = [@ EXCEPT !.pc = "c_generate"]]
  /\ UNCHANGED <<installed, llm, engines, nCalls>>

\* logging_obj.pre_call(input=prompt, api_key="", ...)
CPreCall(t) ==
  /\ th[t].pc = "c_pre_call"
  /\ th' = [th EXCEPT ![t] =
              [@ EXCEPT !.events = Append(@, "pre_call"), !.pc = "c_generate"]]
  /\ UNCHANGED <<installed, llm, engines, nCalls>>

\* if llm: outputs = llm.generate(prompt, sampling_params) else: raise ...
\* (llm is the module global here); an exception of generate is not caught
CGenerate(t) ==
  /\ th[t].pc = "c_generate"
  /\ IF Truthy(llm)
     THEN \/ \E outs \in EngineGenerate(<<th[t].prompt>>) :
               th' = [th EXCEPT ![t] =
                        [@ EXCEPT !.outputs = outs,
                                  !.events = Append(@, "generate"),
                                  !.pc = "c_branch"]]
          \/ th' = [th EXCEPT ![t] =
                      [@ EXCEPT !.exc = GenerateFailure,
                                !.cause = [origin |-> "generate",
                                           exc |-> GenerateFailure],
                                !.events = Append(@, "generate"),
                                !.pc = "raised"]]
     ELSE th' = [th EXCEPT ![t] =
                   [@ EXCEPT !.exc = VLLMError(0, NoEngineMessage),
                             !.cause = [origin |-> "no_engine",
                                        exc |-> VLLMError(0, NoEngineMessage)],
                             !.pc = "raised"]]
  /\ UNCHANGED <<installed, llm, engines, nCalls>>

\* if "stream" in optional_params and ... is True: return iter(outputs)
CStreamReturn(t) ==
  /\ th[t].pc = "c_branch"
  /\ IsStream(th[t].l_optional_params)
  /\ th' = [th EXCEPT ![t] =
              [@ EXCEPT !.ret_kind = "iterator", !.iter_pos = 0, !.pc = "done"]]
  /\ UNCHANGED <<installed, llm, engines, nCalls>>

\* else: logging_obj.post_call(...); print_verbose(...)
CPostCall(t) ==
  /\ th[t].pc = "c_branch"
  /\ ~IsStream(th[t].l_optional_params)
  /\ th' = [th EXCEPT ![t] =
              [@ EXCEPT !.events = Append(@, "post_call"), !.pc = "c_populate"]]
  /\ UNCHANGED <<installed, llm, engines, nCalls>>

\* the response object is filled from outputs[0] and returned
CPopulate(t) ==
  /\ th[t].pc = "c_populate"
  /\ th' = [th EXCEPT ![t] =
              [@ EXCEPT !.model_response =
                           Populate(th[t].model_response, th[t].outputs[1],
                                    th[t].model, CurrentTime),
                        !.events = Append(@, "populate"),
                        !.ret_kind = "response",
                        !.pc = "done"]]
  /\ UNCHANGED <<installed, llm, engines, nCalls>>

\* next() on the iterator completion returned: it only moves forward
IterNext(t) ==
  /\ th[t].pc = "done"
  /\ th[t].ret_kind = "iterator"
  /\ th[t].iter_pos < Len(th[t].outputs)
  /\ th' = [th EXCEPT ![t] = [@ EXCEPT !.iter_pos = @ + 1]]
  /\ UNCHANGED <<installed, llm, engines, nCalls>>

(***************************** batch_completions ***************************)
\* except Exception as e: error_str = str(e); raise VLLMError(0, error_str)
BExcept(t) ==
  /\ th[t].pc = "b_except"
  /\ th' = [th EXCEPT ![t] =
              [@ EXCEPT !.exc = WrapError(th[t].exc), !.pc = "raised"]]
  /\ UNCHANGED <<installed, llm, engines, nCalls>>

\* llm, SamplingParams, optional_params = validate_environment(...): llm is
\* a local of batch_completions
BAssign(t) ==
  /\ th[t].pc = "b_assign"
  /\ th' = [th EXCEPT ![t] =
              [@ EXCEPT !.l_llm = th[t].ret_llm,
                        !.l_optional_params = th[t].ret_optional_params,
                        !.events = Append(@, "resolved"),
                        !.pc = "b_sampling"]]
  /\ UNCHANGED <<installed, llm, engines, nCalls>>

BSampling(t) ==
  /\ th[t].pc = "b_sampling"
  /\ \/ th' = [th EXCEPT ![t] =
                 [@ EXCEPT !.sampling_params = th[t].l_optional_params,
                           !.pc = "b_render"]]
     \/ th' = [th EXCEPT ![t] =
                 [@ EXCEPT !.exc = SamplingFailure,
                           !.cause = [origin |-> "sampling", exc |-> SamplingFailure],
                           !.pc = "raised"]]
  /\ UNCHANGED <<installed, llm, engines, nCalls>>

\* prompts = []; for message in messages: prompts.append(<rendered>)
BRender(t) ==
  /\ th[t].pc = "b_render"
  /\ th' = [th EXCEPT ![t] =
              [@ EXCEPT !.prompts =
                           [i \in 1..Len(th[t].batch) |->
                              RenderPrompt(th[t].model, th[t].batch[i],
                                           th[t].custom_prompt_dict)],
                        !.events = Append(@, "rendered"),
                        !.pc = "b_generate"]]
  /\ UNCHANGED <<installed, llm, engines, nCalls>>

\* if llm: outputs = llm.generate(prompts, sampling_params) else: raise ...
BGenerate(t) ==
  /\ th[t].pc = "b_generate"
  /\ IF Truthy(th[t].l_llm)
     THEN \/ \E outs \in EngineGenerate(th[t].prompts) :
               th' = [th EXCEPT ![t] =
                        [@ EXCEPT !.outputs = outs,
                                  !.events = Append(@, "generate"),
                                  !.pc = "b_build"]]
          \/ th' = [th EXCEPT ![t] =
                      [@ EXCEPT !.exc = GenerateFailure,
                                !.cause = [origin |-> "generate",
                                           exc |-> GenerateFailure],
                                !.events = Append(@, "generate"),
                                !.pc = "raised"]]
     ELSE th' = [th EXCEPT ![t] =
                   [@ EXCEPT !.exc = VLLMError(0, NoEngineMessage),
                             !.cause = [origin |-> "no_engine",
                                        exc |-> VLLMError(0, NoEngineMessage)],
                             !.pc = "raised"]]
  /\ UNCHANGED <<installed, llm, engines, nCalls>>

\* final_outputs = []; for output in outputs: ...; return final_outputs
BBuild(t) ==
  /\ th[t].pc = "b_build"
  /\ th' = [th EXCEPT ![t] =
              [@ EXCEPT !.final_outputs =
                           BuildResponses(th[t].outputs, th[t].model,
                                          CurrentTime, nCalls),
                        !.ret_kind = "list",
                        !.pc = "done"]]
  /\ UNCHANGED <<installed, llm, engines, nCalls>>

(***************************** specifications ******************************)
CallValidateEnvironment(t, Args) ==
  \E model \in Models, o \in Args :
    Start(t, "validate_environment", model, o, <<>>, <<>>, EmptyDict)

CallCompletion(t, Args, Dicts) ==
  \E model \in Models, o \in Args, messages \in MessageLists, cpd \in Dicts :
    Start(t, "completion", model, o, messages, <<>>, cpd)

CallBatchCompletions(t) ==
  \E model \in Models, o \in CallOptionArgs, batch \in BatchInputs,
     cpd \in CustomPromptDicts :
    Start(t, "batch_completions", model, o, <<>>, batch, cpd)

ValidateEnvironmentStep(t) ==
  \/ VEImport(t) \/ VESplit(t) \/ VECheck(t) \/ VEConstruct(t)
  \/ VEStore(t) \/ VEReturn(t) \/ VEExcept(t)

CompletionStep(t) ==
  \/ CExcept(t) \/ CAssign(t) \/ CSampling(t) \/ CRender(t) \/ CPreCall(t)
  \/ CGenerate(t) \/ CStreamReturn(t) \/ CPostCall(t) \/ CPopulate(t)
  \/ IterNext(t)

BatchStep(t) ==
  \/ BExcept(t) \/ BAssign(t) \/ BSampling(t) \/ BRender(t)
  \/ BGenerate(t) \/ BBuild(t)

\* one caller, one call after another
Next ==
  \/ /\ nCalls < MaxCalls
     /\ \/ CallValidateEnvironment(MainThread, CallOptionArgs)
        \/ CallCompletion(MainThread, CallOptionArgs, CustomPromptDicts)
        \/ CallBatchCompletions(MainThread)
  \/ ValidateEnvironmentStep(MainThread)
  \/ CompletionStep(MainThread)
  \/ BatchStep(MainThread)
  \/ Finish(MainThread)

Spec == Init /\ [][Next]_vars

\* two callers, each making one call, their steps interleaved
ConcOptionArgs == {NoneArg, DictArg([k \in {"stream"} |-> "True"])}

ConcNext ==
  \E t \in Threads :
    \/ /\ nCalls < Cardinality(Threads)
       /\ \/ CallValidateEnvironment(t, {NoneArg})
          \/ CallCompletion(t, ConcOptionArgs, {EmptyDict})
    \/ ValidateEnvironmentStep(t)
    \/ CompletionStep(t)

ConcSpec == Init /\ [][ConcNext]_vars

\* validate_environment applied once to every bounded options argument
SplitInit ==
  /\ installed \in BOOLEAN
  /\ llm = None
  /\ engines = <<>>
  /\ nCalls = 1
  /\ \E model \in Models, o \in AllOptionArgs :
       th = [t \in Threads |->
               IF t = MainThread
               THEN [IdleThread EXCEPT
                       !.pc = "ve_import", !.fn = "validate_environment",
                       !.model = model, !.optional_params = o,
                       !.model_response = ModelResponse(1, 0)]
               ELSE IdleThread]

SplitNext == ValidateEnvironmentStep(MainThread)

SplitSpec == SplitInit /\ [][SplitNext]_vars

(***************************** claims **************************************)
Call == th[MainThread]

Count(events, e) == Cardinality({i \in DOMAIN events : events[i] = e})

Has(events, e) == \E i \in DOMAIN events : events[i] = e

\* the eight construction options, as the documentation lists them
ConstructionKeys ==
  {"tokenizer", "tokenizer_mode", "skip_tokenizer_init", "trust_remote_code",
   "dtype", "quantization", "gpu_memory_utilization", "load_format"}

\* the caller's options, None read as empty
CallerOptions(c) == IF c.optional_params.none THEN EmptyDict ELSE c.optional_params.d

\* the construction option k a call with options op asks for
ExpectedConstructionOption(op, k) ==
  IF k \in DOMAIN op THEN op[k]
  ELSE CASE k = "tokenizer" -> "None"
         [] k = "tokenizer_mode" -> "auto"
         [] k = "skip_tokenizer_init" -> "False"
         [] k = "trust_remote_code" -> "False"
         [] k = "dtype" -> "auto"
         [] k = "quantization" -> "None"
         [] k = "gpu_memory_utilization" -> "0.9"
         [] k = "load_format" -> "auto"

\* C1: in a sequential series of calls, once an engine handle exists every
\* later call leaves it in place, returns that same handle and never invokes
\* the engine constructor; at most one engine is ever constructed and the
\* handle, once stored, is never unset.
C1_EngineSingleton ==
  /\ Len(engines) <= 1
  /\ llm \in {None} \cup DOMAIN engines
  /\ (Len(engines) = 1 /\ Call.pc # "ve_store") => llm = 1
  /\ Call.llm_at_start # None =>
       /\ llm = Call.llm_at_start
       /\ ~Has(Call.events, "LLM")
       /\ Call.pc \in {"done", "c_assign", "b_assign", "c_sampling",
                       "b_sampling", "c_render", "b_render", "c_pre_call",
                       "c_generate", "b_generate", "c_branch", "c_populate",
                       "b_build"}
            => Call.ret_llm = Call.llm_at_start
       /\ (Call.fn = "batch_completions" /\ Call.pc \in {"b_sampling",
             "b_render", "b_generate", "b_build", "done"})
            => Call.l_llm = Call.llm_at_start

\* a later call with another model and other construction options has
\* returned the existing handle
C1_Witness ==
  /\ Call.pc = "done"
  /\ Call.llm_at_start # None
  /\ Call.ret_llm = Call.llm_at_start
  /\ engines[llm].model # Call.model
  /\ engines[llm].params # Call.params

\* C2: validate_environment splits the caller's options (None read as empty)
\* into construction options and generation options: every caller key lands
\* in exactly one of the two, no construction key is among the generation
\* options, every other key is there with its value, and a construction
\* option is the caller's value when supplied and its default otherwise.
C2_SplitIsPartition ==
  LET op == CallerOptions(Call)
      gen == Call.ve_optional_params
      split == \/ Call.pc \in {"ve_check", "ve_construct", "ve_store",
                               "ve_return", "done"}
               \/ Call.cause.origin = "ctor"
  IN split =>
       /\ DOMAIN Call.params = ConstructionKeys
       /\ DOMAIN gen = DOMAIN op \ ConstructionKeys
       /\ \A k \in DOMAIN gen : gen[k] = op[k]
       /\ \A k \in DOMAIN op : (k \in ConstructionKeys) # (k \in DOMAIN gen)
       /\ \A k \in ConstructionKeys :
            Call.params[k] = ExpectedConstructionOption(op, k)
       /\ Call.pc = "done" => Call.ret_optional_params = gen
       /\ llm # None => engines[llm].params = Call.params

\* a call with a construction key and a generation key has returned
C2_Witness ==
  /\ Call.pc = "done"
  /\ ~Call.optional_params.none
  /\ DOMAIN Call.optional_params.d = {"dtype", "stream"}
  /\ Call.optional_params.d["dtype"] = "float16"
  /\ DOMAIN Call.ret_optional_params = {"stream"}

\* the text Python prints for an exception
ExceptionText(e) == IF e.type = "KeyError" THEN "'" \o e.arg \o "'" ELSE e.arg

\* C3: when resolving the engine library or constructing the engine fails,
\* the caller of validate_environment, completion or batch_completions gets
\* a VLLMError with status_code 0 and the text of the underlying failure.
C3_ConstructionFailureSurface ==
  (Call.pc = "raised" /\ Call.cause.origin \in {"import", "ctor"}) =>
     /\ Call.exc.type = "VLLMError"
     /\ Call.exc.status_code = 0
     /\ Call.exc.message = ExceptionText(Call.cause.exc)
     /\ Call.exc.arg = Call.exc.message

\* completion has re-wrapped a construction failure whose text is a repr
C3_Witness ==
  /\ Call.pc = "raised"
  /\ Call.fn = "completion"
  /\ Call.cause.origin = "ctor"
  /\ Call.cause.exc.type = "KeyError"
  /\ Call.exc.message = "'architectures'"

\* C4 as stated: every failure of completion and batch_completions from the
\* listed causes, engine-side generation failure included, reaches the
\* caller as a VLLMError with status code 0.
C4_AllFailuresUniform ==
  (Call.pc = "raised" /\ Call.fn \in {"completion", "batch_completions"}
     /\ Call.cause.origin \in {"import", "ctor", "no_engine", "generate"}) =>
     /\ Call.exc.type = "VLLMError"
     /\ Call.exc.status_code = 0

\* C4 amended: failures of resolving or constructing the engine, and a
\* missing handle at generate time, reach the caller as a VLLMError with
\* status code 0; an engine-side generation failure reaches the caller as
\* the engine's own exception, unwrapped.  No failure is retried (the
\* constructor and generate run at most once per call) and a failed call
\* has written nothing to a response object and returns nothing.
C4_FailureSurface ==
  /\ Count(Call.events, "LLM") <= 1
  /\ Count(Call.events, "generate") <= 1
  /\ (Call.pc = "raised" /\ Call.fn \in {"completion", "batch_completions"}) =>
       /\ Call.cause.origin \in {"import", "ctor", "no_engine"} =>
            (Call.exc.type = "VLLMError" /\ Call.exc.status_code = 0)
       /\ Call.cause.origin = "generate" =>
            (Call.exc = Call.cause.exc /\ Call.exc.type = "RuntimeError")
       /\ Call.model_response.writes = {}
       /\ Call.final_outputs = <<>>
       /\ Call.ret_kind = "none"

\* completion has failed in the engine's generate
C4_Witness ==
  /\ Call.pc = "raised"
  /\ Call.fn = "completion"
  /\ Call.cause.origin = "generate"

\* C5: a non-streaming completion that returns reports prompt_tokens as the
\* length of the first output's prompt token ids, completion_tokens as the
\* length of its first candidate's token ids, and total_tokens as their sum.
C5_UsageAccounting ==
  (Call.pc = "done" /\ Call.fn = "completion" /\ Call.ret_kind = "response") =>
     LET usage == Call.model_response.usage
         first == Call.outputs[1]
     IN /\ usage.prompt_tokens = Len(first.prompt_token_ids)
        /\ usage.completion_tokens = Len(first.outputs[1].token_ids)
        /\ usage.total_tokens = usage.prompt_tokens + usage.completion_tokens

\* a response whose first candidate differs in length from the last one
C5_Witness ==
  /\ Call.pc = "done"
  /\ Call.fn = "completion"
  /\ Call.ret_kind = "response"
  /\ Call.model_response.usage.completion_tokens >= 1
  /\ Len(Call.outputs[1].outputs) >= 2
  /\ Len(Call.outputs[1].outputs[2].token_ids) # Len(Call.outputs[1].outputs[1].token_ids)

\* C6: batch_completions returns one new response object per input message
\* list, in order; response i has the text and the usage of output i alone;
\* generate ran once, on the prompts rendered in input order.
C6_BatchPerElement ==
  (Call.pc = "done" /\ Call.fn = "batch_completions") =>
     /\ Call.ret_kind = "list"
     /\ Len(Call.final_outputs) = Len(Call.batch)
     /\ Count(Call.events, "generate") = 1
     /\ Len(Call.prompts) = Len(Call.batch)
     /\ \A i \in DOMAIN Call.batch :
          LET r == Call.final_outputs[i]
              out == Call.outputs[i]
          IN /\ Call.prompts[i] =
                  RenderPrompt(Call.model, Call.batch[i], Call.custom_prompt_dict)
             /\ out.prompt = Call.prompts[i]
             /\ r.content = out.outputs[1].text
             /\ r.usage.prompt_tokens = Len(out.prompt_token_ids)
             /\ r.usage.completion_tokens = Len(out.outputs[1].token_ids)
             /\ r.usage.total_tokens =
                  Len(out.prompt_token_ids) + Len(out.outputs[1].token_ids)
             /\ r.model = Call.model
             /\ r.id # Call.model_response.id
             /\ \A j \in DOMAIN Call.batch :
                  j # i => Call.final_outputs[j].id # r.id

\* a batch of two whose outputs differ in both token counts
C6_Witness ==
  /\ Call.pc = "done"
  /\ Call.fn = "batch_completions"
  /\ Len(Call.final_outputs) = 2
  /\ Call.final_outputs[1].usage.prompt_tokens
       # Call.final_outputs[2].usage.prompt_tokens
  /\ Call.final_outputs[1].usage.completion_tokens
       # Call.final_outputs[2].usage.completion_tokens

\* C7: a completion called with stream True never writes the supplied
\* response object and never emits a post-call event; when it returns, it
\* returns an iterator over the raw outputs, which is consumed at most once.
C7_StreamingLeavesResponse ==
  LET op == CallerOptions(Call)
      streaming == "stream" \in DOMAIN op /\ op["stream"] = "True"
  IN (Call.fn = "completion" /\ streaming) =>
       /\ Call.model_response = ModelResponse(nCalls, 0)
       /\ ~Has(Call.events, "post_call")
       /\ ~Has(Call.events, "populate")
       /\ Call.pc = "done" =>
            /\ Call.ret_kind = "iterator"
            /\ Call.iter_pos \in 0..Len(Call.outputs)
            /\ Len(Call.outputs) = 1

\* a streaming completion has returned and its iterator has been consumed
C7_Witness ==
  /\ Call.pc = "done"
  /\ Call.fn = "completion"
  /\ Call.ret_kind = "iterator"
  /\ Call.iter_pos = 1

\* C8: with two concurrent callers the constructor is invoked only by a
\* caller that read the handle as unset, once per such caller, and the
\* shared handle always names a constructed engine; both callers can read it
\* as unset, both construct, and the later store overwrites the earlier one
\* (the witness).
C8_CheckThenConstructRace ==
  /\ llm \in {None} \cup DOMAIN engines
  /\ \A t \in Threads :
       /\ Has(th[t].events, "LLM") => th[t].saw_unset
       /\ Count(th[t].events, "LLM") <= 1
       /\ th[t].new_llm # None => (th[t].saw_unset /\ th[t].new_llm \in DOMAIN engines)
  /\ Len(engines) <= Cardinality({t \in Threads : th[t].saw_unset})

\* the constructor ran twice, the two callers hold different engines, and
\* the shared handle is the later writer's
C8_Witness ==
  \E a, b \in Threads :
    /\ a # b
    /\ th[a].saw_unset /\ th[b].saw_unset
    /\ Len(engines) = 2
    /\ th[a].new_llm = 1 /\ th[b].new_llm = 2
    /\ th[a].fn = "validate_environment" /\ th[b].fn = "validate_environment"
    /\ th[a].pc = "done" /\ th[b].pc = "done"
    /\ th[a].ret_llm = 1 /\ th[b].ret_llm = 2
    /\ llm = 2

\* the logging and engine events of a call, in order
Observed(events) ==
  LET Kept(e) == e \in {"pre_call", "generate", "post_call", "populate"}
  IN SelectSeq(events, Kept)

IsPrefix(s, r) == Len(s) <= Len(r) /\ \A i \in DOMAIN s : s[i] = r[i]

\* C9: completion emits one pre-call event, after the handle is resolved
\* and the prompt rendered and before generate (and before the handle is
\* tested); a non-streaming completion emits one post-call event between
\* generate and the filling of the response; batch_completions emits none.
C9_LogOrdering ==
  /\ Call.fn = "completion" =>
       /\ IsPrefix(Observed(Call.events),
                   <<"pre_call", "generate", "post_call", "populate">>)
       /\ Has(Call.events, "pre_call") =>
            \E i, j, k \in DOMAIN Call.events :
              /\ i < j /\ j < k
              /\ Call.events[i] = "resolved"
              /\ Call.events[j] = "rendered"
              /\ Call.events[k] = "pre_call"
       /\ Call.pc = "c_generate" => Observed(Call.events) = <<"pre_call">>
       /\ Call.cause.origin \in {"generate", "no_engine"} =>
            Count(Call.events, "pre_call") = 1
       /\ Call.pc = "c_populate" =>
            Observed(Call.events) = <<"pre_call", "generate", "post_call">>
       /\ (Call.pc = "done" /\ Call.ret_kind = "response") =>
            Observed(Call.events) =
              <<"pre_call", "generate", "post_call", "populate">>
       /\ (Call.pc = "done" /\ Call.ret_kind = "iterator") =>
            Observed(Call.events) = <<"pre_call", "generate">>
  /\ Call.fn = "batch_completions" =>
       (~Has(Call.events, "pre_call") /\ ~Has(Call.events, "post_call"))

\* a non-streaming completion has returned
C9_Witness ==
  /\ Call.pc = "done"
  /\ Call.fn = "completion"
  /\ Call.ret_kind = "response"
  /\ Observed(Call.events) = <<"pre_call", "generate", "post_call", "populate">>

\* C10: a construction that raises leaves the handle unset; a call that
\* finds the handle unset constructs with its own model and construction
\* options, so the handle is the engine of the first call whose construction
\* succeeded.
C10_FailedConstructionLeavesUnset ==
  /\ Call.cause.origin = "ctor" => (llm = None /\ engines = <<>>)
  /\ (Call.llm_at_start = None
        /\ Call.pc \in {"ve_store", "ve_return", "done", "c_assign", "b_assign"})
       => Has(Call.events, "LLM")
  /\ (Has(Call.events, "LLM") /\ Call.cause.origin # "ctor") =>
       /\ Len(engines) = 1
       /\ engines[1].model = Call.model
       /\ \A k \in ConstructionKeys :
            engines[1].params[k] = ExpectedConstructionOption(CallerOptions(Call), k)
  /\ llm # None => llm = 1

\* the first call's construction failed and the second call has built the
\* engine from its own model and options
C10_Witness ==
  /\ nCalls = 2
  /\ installed
  /\ Call.llm_at_start = None
  /\ llm = 1
  /\ Call.pc = "done"
  /\ engines[1].model = Call.model
  /\ engines[1].params["dtype"] = "float16"

====
